---- MODULE Spec2Model ----
(***************************************************************************)
(* markovpass: passphrases from a character-level Markov chain.            *)
(*                                                                         *)
(* The model follows src/markovchain.rs (PassphraseMarkovChain), with the  *)
(* repository's own alias sampler src/lib/alias_dist.rs                    *)
(* (AliasDistribution) as the weighted sampler, as src/lib.rs wires them,  *)
(* and src/lib/corpus.rs (Corpus, Ngrams) as the n-gram source;            *)
(* gen_passphrases of src/lib/mod.rs reads its n-grams with get_ngrams.    *)
(*                                                                         *)
(* Representation of the program's values:                                 *)
(*  - a character is a one-character string, a string (an n-gram, a text)  *)
(*    is a sequence of characters;                                         *)
(*  - an f64 weight is a record [k, neg, h]: kind "fin" | "nan" | "inf",   *)
(*    the sign bit, and for a finite value its magnitude in halves         *)
(*    (h = 3 is 1.5), so that -0.0, NaN and the infinities are values;     *)
(*  - an f64 entropy is a record [k, micro]: kind "fin" | "nan" | "inf" |  *)
(*    "ninf" and, for a finite value, the value in millionths of a bit;    *)
(*  - the scaled probabilities of the alias table are doubles, computed    *)
(*    with the rounding of IEEE 754 binary64;                              *)
(*  - a HashMap's iteration order is a nondeterministic choice of a        *)
(*    permutation of its keys.                                             *)
(***************************************************************************)
EXTENDS Integers, Sequences, FiniteSets, TLC

VARIABLES
    ngrams,        \* the n-gram sequence handed to PassphraseMarkovChain::new
    result,        \* "none" before new() ran, then "Ok", an error name or "Panic"
    chain,         \* the PassphraseMarkovChain built by new()
    pc,            \* position of the passphrase() call
    min_entropy,   \* argument of the passphrase() call
    current,       \* MarkovChainIterator.current
    selected,      \* selected_ngrams
    entropy,       \* accumulated entropy of the call
    passphrase,    \* the returned string
    tape,          \* random source: <<>> is OsRng, else a seeded periodic stream
    weights,       \* the weight vector handed to AliasDistribution::new
    dist,          \* the result of AliasDistribution::new
    choice,        \* the last index returned by AliasDistribution::choice
    corpus,        \* the Corpus the n-grams were read from
    peer,          \* the locals of a second passphrase() call on the same chain
    previous,      \* the seed and the outcome of an earlier run of new() and passphrase()
    source         \* the text read, the arguments of Corpus::new, the Ngrams iterator

chainVars == <<ngrams, result, chain>>
callVars == <<pc, min_entropy, current, selected, entropy, passphrase>>
aliasVars == <<weights, dist, choice>>
otherVars == <<peer, previous, source>>
vars == <<ngrams, result, chain, pc, min_entropy, current, selected, entropy,
          passphrase, tape, weights, dist, choice, corpus, peer, previous,
          source>>

(***************************************************************************)
(* Bounds of the model.                                                    *)
(***************************************************************************)
\* longest n-gram sequence handed to new() directly
MaxLen == 4
\* longest walk of a passphrase() call under Spec
MaxSteps == 4
\* largest min_entropy of a call under Spec, in half bits
MaxMinEntropy == 2
\* longest weight vector handed to AliasDistribution::new
MaxWeights == 3
\* largest finite weight, in halves
MaxWeight == 4
\* longest walk of a passphrase() call under SpecFixture
FixtureSteps == 240
\* longest period of the seeded random stream under SpecFixture
TapeLen == 2
\* longest text read by Corpus::new under SpecCorpus, in characters
MaxText == 4
\* largest min_word_length under SpecCorpus
MaxMinWordLength == 2
\* most words of a cleaned text
MaxWords == 2
\* longest word of a cleaned text
MaxWordLen == 3
\* largest ngram_length of a corpus
MaxNgramLength == 3

(***************************************************************************)
(* Sequences and maps.                                                     *)
(***************************************************************************)
Last(s) == s[Len(s)]

Range(s) == {s[i] : i \in DOMAIN s}

RECURSIVE SeqsUpTo(_, _)
SeqsUpTo(S, n) ==
    IF n = 0 THEN {<<>>}
    ELSE LET shorter == SeqsUpTo(S, n - 1)
         IN shorter \cup {Append(s, x) : s \in {t \in shorter : Len(t) = n - 1}, x \in S}

\* the orders in which a HashMap with key set S can be iterated
Perms(S) ==
    {p \in [1..Cardinality(S) -> S] : \A i, j \in 1..Cardinality(S) : p[i] = p[j] => i = j}

EmptyMap == [x \in {} |-> 0]

\* *map.entry(key).or_insert(0) += 1
Increment(map, key) ==
    IF key \in DOMAIN map THEN [map EXCEPT ![key] = @ + 1] ELSE map @@ (key :> 1)

RECURSIVE Gcd(_, _)
Gcd(a, b) == IF b = 0 THEN a ELSE Gcd(b, a % b)

\* F(x) and F(x, y), the arguments evaluated once, before F is applied
ValueOf(F(_), x) == CHOOSE r \in {F(v) : v \in {x}} : TRUE
ValueOf2(F(_, _), x, y) == CHOOSE r \in {F(v, w) : v \in {x}, w \in {y}} : TRUE

(***************************************************************************)
(* f64 weights.                                                            *)
(***************************************************************************)
Fin(h) == [k |-> "fin", neg |-> FALSE, h |-> h]
NegFin(h) == [k |-> "fin", neg |-> TRUE, h |-> h]
NaN == [k |-> "nan", neg |-> FALSE, h |-> 0]
PosInf == [k |-> "inf", neg |-> FALSE, h |-> 0]
NegInf == [k |-> "inf", neg |-> TRUE, h |-> 0]

is_sign_negative(w) == w.neg

\* w.is_finite(), and the check that forgets the infinities
IsNotNaN(w) == w.k # "nan"

is_finite(w) == w.k = "fin"

\* `count as f64`
AsF64(count) == Fin(2 * count)

(***************************************************************************)
(* f64 entropies, in millionths of a bit.                                  *)
(***************************************************************************)
Bits(micro) == [k |-> "fin", micro |-> micro]
BitsNaN == [k |-> "nan", micro |-> 0]
BitsInf == [k |-> "inf", micro |-> 0]
BitsNegInf == [k |-> "ninf", micro |-> 0]

\* a + b and a - b on f64 (neither operand of the program is ever infinite)
FAdd(a, b) ==
    IF a.k = "nan" \/ b.k = "nan" THEN BitsNaN
    ELSE IF a.k = "fin" /\ b.k = "fin" THEN Bits(a.micro + b.micro)
    ELSE IF a.k = "fin" THEN b
    ELSE IF b.k = "fin" \/ a.k = b.k THEN a
    ELSE BitsNaN

FNeg(a) ==
    IF a.k = "fin" THEN Bits(0 - a.micro)
    ELSE IF a.k = "inf" THEN BitsNegInf
    ELSE IF a.k = "ninf" THEN BitsInf
    ELSE a

FSub(a, b) == FAdd(a, FNeg(b))

\* a >= b on f64: false when either is NaN
FGe(a, b) ==
    IF a.k = "nan" \/ b.k = "nan" THEN FALSE
    ELSE IF a.k = "inf" \/ b.k = "ninf" THEN TRUE
    ELSE IF a.k = "ninf" \/ b.k = "inf" THEN FALSE
    ELSE a.micro >= b.micro

\* a comparison with 0.0 that never holds
FIsZeroNever(a) == a.k = "fin" /\ a.micro = 0 /\ a.k = "nan"

\* a == 0.0 on f64
FIsZero(a) == a.k = "fin" /\ a.micro = 0

\* log2 of an integer, in millionths
Log2Micro(n) ==
    <<0, 1000000, 1584963, 2000000, 2321928, 2584963, 2807355, 3000000,
      3169925, 3321928, 3459432, 3584963, 3700440, 3807355, 3906891, 4000000,
      4087463, 4169925, 4247928, 4321928, 4392317, 4459432, 4523562, 4584963,
      4643856, 4700440, 4754888, 4807355, 4857981, 4906891, 4954196, 5000000>>[n]

\* prob * prob.log2() for prob = weight / total: NaN for 0/0 and for
\* prob = 0 (0 * -inf), else (w/t) * (log2 w - log2 t)
ProbLogProb(w, total) ==
    IF w = 0 THEN BitsNaN
    ELSE LET g == Gcd(w, total)
             a == w \div g
             b == total \div g
         IN Bits(0 - ((a * (Log2Micro(b) - Log2Micro(a))) \div b))

RECURSIVE SumHalves(_)
SumHalves(ws) == IF ws = <<>> THEN 0 ELSE ws[1].h + SumHalves(Tail(ws))

(***************************************************************************)
(* f64 probabilities.  A finite double is a sign and a magnitude; the      *)
(* magnitude is an integer number of units of 2^-FracBits, written as      *)
(* NLimbs digits of base LimbBase, most significant first.  Every result   *)
(* of an arithmetic operation is rounded to Mantissa significant bits, to  *)
(* nearest with ties to even, as IEEE 754 binary64 does.                   *)
(***************************************************************************)
\* 2^15: a digit holds 15 bits
LimbBase == 32768
NLimbs == 6
FracBits == 75
Mantissa == 53

\* the units of 1.0 in the most significant limb
OneLimb == 2 ^ (FracBits - 15 * (NLimbs - 1))

RECURSIVE Zeros(_)
Zeros(n) == IF n = 0 THEN <<>> ELSE Append(Zeros(n - 1), 0)

LZero == Zeros(NLimbs)

\* the magnitude of 2^e units
LPow2(e) == Zeros(NLimbs - 1 - (e \div 15)) \o <<2 ^ (e % 15)>> \o Zeros(e \div 15)

RECURSIVE LCompare(_, _, _)
LCompare(a, b, k) ==
    IF k > NLimbs THEN 0
    ELSE IF a[k] < b[k] THEN 0 - 1
    ELSE IF a[k] > b[k] THEN 1
    ELSE LCompare(a, b, k + 1)

LLess(a, b) == LCompare(a, b, 1) < 0

\* limbs k down to 1 of a + b, given the carry into limb k
RECURSIVE LAddFrom(_, _, _, _, _)
LAddFrom(a, b, k, carry, acc) ==
    IF k = 0 THEN acc
    ELSE LET sum == a[k] + b[k] + carry
         IN LAddFrom(a, b, k - 1, sum \div LimbBase, <<sum % LimbBase>> \o acc)

LAdd(a, b) == LAddFrom(a, b, NLimbs, 0, <<>>)

\* limbs k down to 1 of a - b, given the borrow from limb k
RECURSIVE LSubFrom(_, _, _, _, _)
LSubFrom(a, b, k, borrow, acc) ==
    IF k = 0 THEN acc
    ELSE LET diff == a[k] - b[k] - borrow
         IN LSubFrom(a, b, k - 1, IF diff < 0 THEN 1 ELSE 0,
                     <<(diff + LimbBase) % LimbBase>> \o acc)

\* a - b for a >= b
LSub(a, b) == LSubFrom(a, b, NLimbs, 0, <<>>)

RECURSIVE LMulFrom(_, _, _, _, _)
LMulFrom(a, n, k, carry, acc) ==
    IF k = 0 THEN acc
    ELSE LET prod == a[k] * n + carry
         IN LMulFrom(a, n, k - 1, prod \div LimbBase, <<prod % LimbBase>> \o acc)

\* a * n for a small integer n
LMul(a, n) == LMulFrom(a, n, NLimbs, 0, <<>>)

\* the long division by den: limbs k..NLimbs of the quotient appended to
\* acc, given the remainder rem (already scaled to limb k) so far
RECURSIVE LDivFrom(_, _, _, _)
LDivFrom(rem, den, k, acc) ==
    IF k > NLimbs THEN [quot |-> acc, exact |-> rem = 0]
    ELSE LDivFrom((rem % den) * LimbBase, den, k + 1, Append(acc, rem \div den))

\* floor(num / den) in units and whether the division is exact, for
\* integers num and 0 < den < 2^16; a quotient that is not 0 is then 2^-16
\* or more and has Mantissa or more bits in units of 2^-FracBits
LDiv(num, den) == LDivFrom(num * OneLimb, den, 1, <<>>)

RECURSIVE BitLen(_)
BitLen(x) == IF x = 0 THEN 0 ELSE 1 + BitLen(x \div 2)

RECURSIVE LBitLenFrom(_, _)
LBitLenFrom(a, k) ==
    IF k > NLimbs THEN 0
    ELSE IF a[k] # 0 THEN 15 * (NLimbs - k) + BitLen(a[k])
    ELSE LBitLenFrom(a, k + 1)

\* limbs k..NLimbs of a mod 2^bits
RECURSIVE LLowFrom(_, _, _)
LLowFrom(a, bits, k) ==
    IF k > NLimbs THEN <<>>
    ELSE LET after == 15 * (NLimbs - k)
             limb == IF bits <= after THEN 0
                     ELSE IF bits >= after + 15 THEN a[k]
                     ELSE a[k] % (2 ^ (bits - after))
         IN <<limb>> \o LLowFrom(a, bits, k + 1)

\* a mod 2^bits
LLow(a, bits) == LLowFrom(a, bits, 1)

\* the bit of a that counts 2^e units
LBit(a, e) == (a[NLimbs - (e \div 15)] \div (2 ^ (e % 15))) % 2

\* x = <<a, sticky, drop>> and low = a mod 2^drop: a without its last drop
\* bits, plus 2^drop when low (with the remainder) is more than half of
\* 2^drop, or is half of it and the bit kept last is odd
RoundLow(x, low) ==
    LET cmp == LCompare(low, LPow2(x[3] - 1), 1)
        odd == LBit(x[1], x[3]) = 1
        up == cmp > 0 \/ (cmp = 0 /\ (x[2] \/ odd))
        down == LSub(x[1], low)
    IN IF up THEN LAdd(down, LPow2(x[3])) ELSE down

RoundDrop(x) == IF x[3] <= 0 THEN x[1] ELSE ValueOf2(RoundLow, x, LLow(x[1], x[3]))

\* the magnitude a (plus a nonzero remainder when sticky) rounded to
\* Mantissa significant bits, to nearest, ties to even
Round(a, sticky) == ValueOf(RoundDrop, <<a, sticky, LBitLenFrom(a, 1) - Mantissa>>)

F64(neg, m) == [neg |-> neg, m |-> m]
F64Zero == F64(FALSE, LZero)
F64One == F64(FALSE, LPow2(FracBits))

\* the double nearest to the signed magnitude s
Rounded(s) == F64(s.neg, Round(s.m, FALSE))

Less(a, b) ==
    IF a.neg /\ ~b.neg THEN TRUE
    ELSE IF ~a.neg /\ b.neg THEN FALSE
    ELSE IF a.neg THEN LLess(b.m, a.m)
    ELSE LLess(a.m, b.m)

\* a < b
F64Less(a, b) == ValueOf2(Less, a, b)

\* a >= b
F64Ge(a, b) == ~F64Less(a, b)

SignedSumOf(a, b) ==
    IF a.neg = b.neg THEN F64(a.neg, LAdd(a.m, b.m))
    ELSE IF a.m = b.m THEN F64Zero
    ELSE IF LLess(a.m, b.m) THEN F64(b.neg, LSub(b.m, a.m))
    ELSE F64(a.neg, LSub(a.m, b.m))

\* the sum of a and b before it is rounded
SignedSum(a, b) == ValueOf2(SignedSumOf, a, b)

Negated(a) == IF a.m = LZero THEN a ELSE F64(~a.neg, a.m)

F64Neg(a) == ValueOf(Negated, a)

\* a + b
F64Add(a, b) == ValueOf(Rounded, SignedSum(a, b))

\* a - b
F64Sub(a, b) == F64Add(a, F64Neg(b))

Product(a, n) == F64(FALSE, LMul(a.m, n))

\* a * (n as f64) for a >= 0
F64Times(a, n) == ValueOf(Rounded, ValueOf2(Product, a, n))

RoundedQuotient(r) == F64(FALSE, Round(r.quot, ~r.exact))

\* weight / total for the non-negative weights w and total, in halves
F64Ratio(w, total) == ValueOf(RoundedQuotient, LDiv(w, total))

(***************************************************************************)
(* AliasDistribution (src/lib/alias_dist.rs).  Tables are indexed from 0   *)
(* as in the source; probability_table holds doubles.                      *)
(***************************************************************************)
AliasErr(e) ==
    [status |-> e, size |-> 0, total |-> 1, probability_table |-> <<>>,
     alias_table |-> <<>>, entropy |-> Bits(0), iterations |-> 0]

\* for weight in weights { entropy -= prob * prob.log(2.0) }
RECURSIVE EntropyLoop(_, _, _)
EntropyLoop(ws, total, acc) ==
    IF ws = <<>> THEN acc
    ELSE EntropyLoop(Tail(ws), total, FSub(acc, ProbLogProb(ws[1].h, total)))

\* prob < 1.0
IsUnderfull(prob) == F64Less(prob, F64One)

\* the indices 0..size-1 pushed on the underfull / overfull stack in order
RECURSIVE Partition(_, _, _)
Partition(table, size, under) ==
    IF size = 0 THEN <<>>
    ELSE LET rest == Partition(table, size - 1, under)
             i == size - 1
         IN IF IsUnderfull(table[i]) = under THEN Append(rest, i) ELSE rest

Pop(stack) == SubSeq(stack, 1, Len(stack) - 1)

\* the donation that forgets the `- 1.0`
PairStepNoSubtract(st) ==
    LET i == Last(st.underfull)
        j == Last(st.overfull)
        pj == F64Add(st.probability_table[j], st.probability_table[i])
    IN [probability_table |-> [st.probability_table EXCEPT ![j] = pj],
        alias_table |-> [st.alias_table EXCEPT ![i] = j],
        underfull |-> Pop(st.underfull),
        overfull |-> st.overfull,
        iterations |-> st.iterations + 1]

\* the iteration that does not push the donor j back on either stack
PairStepDropsDonor(st) ==
    LET i == Last(st.underfull)
        j == Last(st.overfull)
        pj == F64Add(st.probability_table[j],
                     F64Sub(st.probability_table[i], F64One))
    IN [probability_table |-> [st.probability_table EXCEPT ![j] = pj],
        alias_table |-> [st.alias_table EXCEPT ![i] = j],
        underfull |-> Pop(st.underfull),
        overfull |-> Pop(st.overfull),
        iterations |-> st.iterations + 1]

\* the donation with its sign reversed: probability_table[j] += 1.0 - probability_table[i]
PairStepSignReversed(st) ==
    LET i == Last(st.underfull)
        j == Last(st.overfull)
        pj == F64Add(st.probability_table[j],
                     F64Sub(F64One, st.probability_table[i]))
        under == Pop(st.underfull)
        over == Pop(st.overfull)
    IN [probability_table |-> [st.probability_table EXCEPT ![j] = pj],
        alias_table |-> [st.alias_table EXCEPT ![i] = j],
        underfull |-> IF IsUnderfull(pj) THEN Append(under, j) ELSE under,
        overfull |-> IF IsUnderfull(pj) THEN over ELSE Append(over, j),
        iterations |-> st.iterations + 1]

\* one iteration of `while let (Some(i), Some(j)) = (underfull.pop(), overfull.pop())`:
\* probability_table[j] += probability_table[i] - 1.0
PairStep(st) ==
    LET i == Last(st.underfull)
        j == Last(st.overfull)
        pj == F64Add(st.probability_table[j],
                     F64Sub(st.probability_table[i], F64One))
        under == Pop(st.underfull)
        over == Pop(st.overfull)
    IN [probability_table |-> [st.probability_table EXCEPT ![j] = pj],
        alias_table |-> [st.alias_table EXCEPT ![i] = j],
        underfull |-> IF IsUnderfull(pj) THEN Append(under, j) ELSE under,
        overfull |-> IF IsUnderfull(pj) THEN over ELSE Append(over, j),
        iterations |-> st.iterations + 1]

\* the loop head that ends the loop: both pop() calls of the tuple are
\* evaluated before the pattern is tested, so the stack that is not empty
\* loses its top
LoopExit(st) == [st EXCEPT !.underfull = Pop(@), !.overfull = Pop(@)]

RECURSIVE PairingLoop(_)
PairingLoop(st) ==
    IF st.underfull = <<>> \/ st.overfull = <<>> THEN LoopExit(st)
    ELSE ValueOf(PairingLoop, PairStep(st))

\* let prob = weight / total; prob * (size as f64)
ScaledProb(w, total, size) == F64Times(F64Ratio(w.h, total), size)

\* for weight in weights { probability_table.push(prob * (size as f64)) },
\* the first n weights
RECURSIVE ScaledTable(_, _, _)
ScaledTable(ws, total, n) ==
    IF n = 0 THEN EmptyMap
    ELSE ScaledTable(ws, total, n - 1) @@ ((n - 1) :> ScaledProb(ws[n], total, Len(ws)))

\* the tables with alias_table collected from 1..=size
PairingInitOneBased(ws, total) ==
    LET size == Len(ws)
        table == ScaledTable(ws, total, size)
    IN [probability_table |-> table,
        alias_table |-> [i \in 0..(size - 1) |-> i + 1],
        underfull |-> Partition(table, size, TRUE),
        overfull |-> Partition(table, size, FALSE),
        iterations |-> 0]

\* the state of the construction when the pairing loop is entered
PairingInit(ws, total) ==
    LET size == Len(ws)
        table == ScaledTable(ws, total, size)
    IN [probability_table |-> table,
        alias_table |-> [i \in 0..(size - 1) |-> i],
        underfull |-> Partition(table, size, TRUE),
        overfull |-> Partition(table, size, FALSE),
        iterations |-> 0]

\* the sampler returned for valid weights with a positive total
AliasTables(ws, total) ==
    LET st == ValueOf(PairingLoop, PairingInit(ws, total))
    IN [status |-> "Ok", size |-> Len(ws), total |-> total,
        probability_table |-> st.probability_table,
        alias_table |-> st.alias_table,
        entropy |-> EntropyLoop(ws, total, Bits(0)),
        iterations |-> st.iterations]

AliasDistributionNew(ws) ==
    IF \E i \in DOMAIN ws : is_sign_negative(ws[i]) \/ ~is_finite(ws[i])
    THEN AliasErr("InvalidWeight")
    ELSE IF SumHalves(ws) = 0
    THEN AliasErr("NullDistribution")
    ELSE ValueOf2(AliasTables, ws, SumHalves(ws))

\* the uniform draw rng.gen::<f64>(), a multiple of 2^-Mantissa in [0, 1):
\* yn < YDen stands for yn / YDen, and yn = YDen for the largest draw,
\* 1 - 2^-Mantissa
YDen == 2 ^ 10
YNums == {0, YDen \div 2, YDen}

GenF64(yn) ==
    IF yn = YDen
    THEN F64Sub(F64One, F64(FALSE, LPow2(FracBits - Mantissa)))
    ELSE F64Ratio(yn, YDen)

\* if self.probability_table[i] >= rng.gen() { i } else { self.alias_table[i] }
AliasChoice(d, i, yn) ==
    IF F64Ge(d.probability_table[i], GenF64(yn)) THEN i ELSE d.alias_table[i]

(***************************************************************************)
(* Strings.                                                                *)
(***************************************************************************)
IsWhitespace(c) == c = " "

\* the test that accepts every non-empty n-gram as a word start
StartsWithAnything(s) == s # <<>>

starts_with_space(s) == s # <<>> /\ s[1] = " "

ends_with_space(s) == s # <<>> /\ Last(s) = " "

RECURSIVE TrimStart(_)
TrimStart(s) == IF s # <<>> /\ IsWhitespace(s[1]) THEN TrimStart(Tail(s)) ELSE s

RECURSIVE TrimEnd(_)
TrimEnd(s) == IF s # <<>> /\ IsWhitespace(Last(s)) THEN TrimEnd(Pop(s)) ELSE s

Trim(s) == TrimEnd(TrimStart(s))

(***************************************************************************)
(* PassphraseMarkovChain::new (src/markovchain.rs).                        *)
(***************************************************************************)
\* fn weight_entropy: weights.iter().fold(0.0, |acc, w| acc - prob * prob.log2())
RECURSIVE WeightEntropyFold(_, _, _)
WeightEntropyFold(ws, total, acc) ==
    IF ws = <<>> THEN acc
    ELSE WeightEntropyFold(Tail(ws), total, FSub(acc, ProbLogProb(ws[1].h, total)))

weight_entropy(ws) == WeightEntropyFold(ws, SumHalves(ws), Bits(0))

NoCounts == [starting_ngram_counts |-> EmptyMap, transition_counters |-> EmptyMap]

\* the loop body without the transition of the last n-gram to the first
CountStepNoWrap(acc, s, i) ==
    LET current_ngram == s[i]
        tc == acc.transition_counters
    IN [starting_ngram_counts |->
            IF starts_with_space(current_ngram)
            THEN Increment(acc.starting_ngram_counts, current_ngram)
            ELSE acc.starting_ngram_counts,
        transition_counters |->
            IF i = Len(s) THEN tc
            ELSE IF current_ngram \in DOMAIN tc
            THEN [tc EXCEPT ![current_ngram] = Increment(@, s[i + 1])]
            ELSE tc @@ (current_ngram :> Increment(EmptyMap, s[i + 1]))]

\* the loop body counting the peeked n-gram, when there is one, as a start
CountStepStartFromPeek(acc, s, i) ==
    LET current_ngram == s[i]
        next_ngram == IF i < Len(s) THEN s[i + 1] ELSE s[1]
        tc == acc.transition_counters
    IN [starting_ngram_counts |->
            IF i < Len(s) /\ starts_with_space(next_ngram)
            THEN Increment(acc.starting_ngram_counts, next_ngram)
            ELSE acc.starting_ngram_counts,
        transition_counters |->
            IF current_ngram \in DOMAIN tc
            THEN [tc EXCEPT ![current_ngram] = Increment(@, next_ngram)]
            ELSE tc @@ (current_ngram :> Increment(EmptyMap, next_ngram))]

\* the body of `while let Some(current_ngram) = ngrams.next()` for the i-th n-gram
CountStep(acc, s, i) ==
    LET current_ngram == s[i]
        next_ngram == IF i < Len(s) THEN s[i + 1] ELSE s[1]
        tc == acc.transition_counters
    IN [starting_ngram_counts |->
            IF starts_with_space(current_ngram)
            THEN Increment(acc.starting_ngram_counts, current_ngram)
            ELSE acc.starting_ngram_counts,
        transition_counters |->
            IF current_ngram \in DOMAIN tc
            THEN [tc EXCEPT ![current_ngram] = Increment(@, next_ngram)]
            ELSE tc @@ (current_ngram :> Increment(EmptyMap, next_ngram))]

RECURSIVE CountLoop(_, _, _)
CountLoop(s, i, acc) ==
    IF i > Len(s) THEN acc ELSE CountLoop(s, i + 1, CountStep(acc, s, i))

Counts(s) == CountLoop(s, 1, NoCounts)

\* one iteration order per inner map of transition_counters
RECURSIVE OrderAssignments(_, _)
OrderAssignments(tc, keys) ==
    IF keys = {} THEN {EmptyMap}
    ELSE LET key == CHOOSE x \in keys : TRUE
         IN {f @@ (key :> p) : f \in OrderAssignments(tc, keys \ {key}),
                               p \in Perms(DOMAIN tc[key])}

\* the values and weights vectors filled from a map iterated in `order`
RECURSIVE WeightsOf(_, _)
WeightsOf(map, order) ==
    IF order = <<>> THEN <<>>
    ELSE <<AsF64(map[Head(order)])>> \o WeightsOf(map, Tail(order))

\* MarkovNode::new; `panicked` is the failed unwrap() of the sampler
MarkovNodeNew(value, values, ws) ==
    LET d == AliasDistributionNew(ws)
    IN [value |-> value, transitions |-> values, dist |-> d,
        entropy |-> weight_entropy(ws), panicked |-> d.status # "Ok"]

RECURSIVE SumEntropy(_, _)
SumEntropy(nodes, keys) ==
    IF keys = {} THEN Bits(0)
    ELSE LET key == CHOOSE x \in keys : TRUE
         IN ValueOf2(FAdd, SumEntropy(nodes, keys \ {key}), nodes[key].entropy)

\* ngrams.peek() is None: ok_or(MarkovChainError::NoNgrams)? returns the error
NoFirstNgramOffByOne(s) == Len(s) <= 1

NoFirstNgram(s) == s = <<>>

NoChain ==
    [nodes |-> EmptyMap, starting_ngrams |-> <<>>,
     starting_dist |-> AliasErr("none"), starting_entropy |-> Bits(0)]

Outcome(r, c) == [result |-> r, chain |-> c]

\* for (ngram, transition_counts) in transition_counters { nodes.insert(..) }
\* over the n-grams `keys`, each inner map iterated in the order orders[ngram]
RECURSIVE NodesOf(_, _, _)
NodesOf(tc, orders, keys) ==
    IF keys = {} THEN EmptyMap
    ELSE LET ngram == CHOOSE x \in keys : TRUE
         IN NodesOf(tc, orders, keys \ {ngram})
            @@ (ngram :> MarkovNodeNew(ngram, orders[ngram],
                                       WeightsOf(tc[ngram], orders[ngram])))

\* the fields of the chain built from the counts, with starting_ngram_counts
\* iterated in the order starting_ngrams
ChainOf(counts, starting_ngrams, orders) ==
    LET tc == counts.transition_counters
        starting_ngram_weights == WeightsOf(counts.starting_ngram_counts, starting_ngrams)
    IN [nodes |-> NodesOf(tc, orders, DOMAIN tc),
        starting_ngrams |-> starting_ngrams,
        starting_dist |-> AliasDistributionNew(starting_ngram_weights),
        starting_entropy |-> weight_entropy(starting_ngram_weights)]

\* the unwrap()s of the samplers and the two entropy checks of new()
Checked(c) ==
    IF c.starting_dist.status # "Ok" THEN Outcome("Panic", NoChain)
    ELSE IF \E ngram \in DOMAIN c.nodes : c.nodes[ngram].panicked
    THEN Outcome("Panic", NoChain)
    ELSE IF FIsZero(SumEntropy(c.nodes, DOMAIN c.nodes)) THEN Outcome("ZeroEntropy", NoChain)
    ELSE IF FIsZero(c.starting_entropy) THEN Outcome("ZeroStartOfWordEntropy", NoChain)
    ELSE Outcome("Ok", c)

\* new() on the sequence s, with starting_ngram_counts iterated in the order
\* starting_ngrams and each inner map of transition_counters in orders[ngram]
PassphraseMarkovChainNew(s, starting_ngrams, orders) ==
    IF NoFirstNgram(s) THEN Outcome("NoNgrams", NoChain)
    ELSE ValueOf(Checked,
                 ValueOf(LAMBDA counts : ChainOf(counts, starting_ngrams, orders),
                         Counts(s)))

(***************************************************************************)
(* The random source.                                                      *)
(***************************************************************************)
\* the draws (i, y) a sampler over `size` indices can get: any, from the
\* operating system's generator, or the next of the seeded stream
DrawSet(size) ==
    IF tape = <<>>
    THEN {[i |-> i, yn |-> yn] : i \in 0..(size - 1), yn \in YNums}
    ELSE {[i |-> Head(tape).u % size, yn |-> Head(tape).yn]}

NextTape == IF tape = <<>> THEN <<>> ELSE Append(Tail(tape), Head(tape))

(***************************************************************************)
(* PassphraseMarkovChain::passphrase (src/markovchain.rs).                 *)
(***************************************************************************)
\* selected_ngrams.iter().map(first char).chain(tail).collect().trim()
FirstChars(sel) == [i \in 1..Len(sel) |-> sel[i][1]]

\* the characters with the whole last n-gram appended (no skip(1))
UntrimmedWholeLast(sel) == FirstChars(sel) \o Last(sel)

Untrimmed(sel) == FirstChars(sel) \o Tail(Last(sel))

\* the string of the call, and the string without trim()
PassphraseStringUntrimmed(sel) == Untrimmed(sel)

PassphraseString(sel) == Trim(Untrimmed(sel))

\* the node entropy left out for an n-gram at which the walk may stop
NgramEntropyNotAtWordEnd(c, ngram) ==
    IF ends_with_space(ngram) THEN Bits(0) ELSE c.nodes[ngram].entropy

ngram_entropy(c, ngram) == c.nodes[ngram].entropy

BreakConditionEither(e, m, ngram) == FGe(e, m) \/ ends_with_space(ngram)

\* entropy >= min_entropy && ngram.ends_with(' ')
BreakCondition(e, m, ngram) == FGe(e, m) /\ ends_with_space(ngram)

(***************************************************************************)
(* Actions.                                                                *)
(***************************************************************************)
\* PassphraseMarkovChain::new(ngrams)
New ==
    /\ result = "none"
    /\ \E starting_ngrams \in Perms(DOMAIN Counts(ngrams).starting_ngram_counts),
          orders \in OrderAssignments(Counts(ngrams).transition_counters,
                                      DOMAIN Counts(ngrams).transition_counters) :
          LET out == PassphraseMarkovChainNew(ngrams, starting_ngrams, orders)
          IN /\ result' = out.result
             /\ chain' = out.chain
    /\ UNCHANGED <<ngrams, callVars, tape, aliasVars, corpus, otherVars>>

Panicked ==
    /\ pc' = "panic"
    /\ UNCHANGED <<min_entropy, current, selected, entropy, passphrase, tape>>

\* passphrase(m) up to the loop: the accumulators, then iter(), which
\* samples the starting n-gram (get_starting_ngram)
Call(m) ==
    /\ result = "Ok"
    /\ pc \in {"idle", "returned"}
    /\ \E d \in DrawSet(chain.starting_dist.size) :
          LET idx == AliasChoice(chain.starting_dist, d.i, d.yn)
          IN IF \/ idx \notin 0..(Len(chain.starting_ngrams) - 1)
                \/ chain.starting_ngrams[idx + 1] \notin DOMAIN chain.nodes
             THEN Panicked
             ELSE /\ pc' = "walk"
                  /\ min_entropy' = m
                  /\ current' = chain.nodes[chain.starting_ngrams[idx + 1]].value
                  /\ selected' = <<>>
                  /\ entropy' = chain.starting_entropy
                  /\ passphrase' = <<>>
                  /\ tape' = NextTape
    /\ UNCHANGED <<chainVars, aliasVars, corpus, otherVars>>

\* one iteration of `for ngram in self.iter()`: MarkovChainIterator::next
\* (which samples the successor of the n-gram it yields), then the loop
\* body; on `break`, the output string is built and the call returns.
\* The walk is followed for up to `bound` n-grams.
Step(bound) ==
    /\ pc = "walk"
    /\ Len(selected) < bound
    /\ LET ngram == current
       IN IF ngram \notin DOMAIN chain.nodes
          THEN Panicked
          ELSE \E d \in DrawSet(chain.nodes[ngram].dist.size) :
                LET node == chain.nodes[ngram]
                    idx == AliasChoice(node.dist, d.i, d.yn)
                    sel == Append(selected, ngram)
                    e == FAdd(entropy, ngram_entropy(chain, ngram))
                IN IF idx \notin 0..(Len(node.transitions) - 1)
                   THEN Panicked
                   ELSE /\ current' = node.transitions[idx + 1]
                        /\ selected' = sel
                        /\ entropy' = e
                        /\ tape' = NextTape
                        /\ min_entropy' = min_entropy
                        /\ IF BreakCondition(e, min_entropy, ngram)
                           THEN pc' = "returned" /\ passphrase' = PassphraseString(sel)
                           ELSE pc' = "walk" /\ passphrase' = passphrase
    /\ UNCHANGED <<chainVars, aliasVars, corpus, otherVars>>

(***************************************************************************)
(* Spec: new() on any sequence of up to MaxLen n-grams of two characters,  *)
(* then passphrase() calls with any random draws.                          *)
(***************************************************************************)
Chars == {" ", "a"}

NgramSet == {<<x, y>> : x \in Chars, y \in Chars}

MinEntropies ==
    {Bits(h * 500000) : h \in (0 - 1)..MaxMinEntropy} \cup {BitsNaN, BitsInf}

NoCorpus == [text |-> <<>>, ngram_length |-> 0, original_byte_length |-> 0]

\* a call that has not started, and no earlier run
NoCall ==
    [pc |-> "idle", min_entropy |-> Bits(0), current |-> <<>>, selected |-> <<>>,
     entropy |-> Bits(0), passphrase |-> <<>>]

NoRun ==
    [done |-> FALSE, seed |-> <<>>, min_entropy |-> Bits(0), passphrase |-> <<>>,
     entropy |-> Bits(0)]

\* nothing read, Corpus::new not called
NoSource ==
    [text |-> <<>>, ngram_length |-> 0, min_word_length |-> 0, built |-> FALSE,
     byte_index |-> 0, exhausted |-> FALSE, panicked |-> FALSE]

InitOther ==
    /\ peer = NoCall
    /\ previous = NoRun
    /\ source = NoSource

InitRest ==
    /\ result = "none"
    /\ chain = NoChain
    /\ pc = "idle"
    /\ min_entropy = Bits(0)
    /\ current = <<>>
    /\ selected = <<>>
    /\ entropy = Bits(0)
    /\ passphrase = <<>>

Init ==
    /\ ngrams \in SeqsUpTo(NgramSet, MaxLen)
    /\ InitRest
    /\ InitOther
    /\ tape = <<>>
    /\ weights = <<>>
    /\ dist = AliasErr("none")
    /\ choice = 0 - 1
    /\ corpus = NoCorpus

Passphrase == \E m \in MinEntropies : Call(m)

Walk == Step(MaxSteps)

Next == New \/ Passphrase \/ Walk

Spec == Init /\ [][Next]_vars

(***************************************************************************)
(* Properties of the input sequence, stated on the sequence itself.        *)
(***************************************************************************)
\* the cyclic successor of the i-th n-gram
CyclicNext(s, i) == s[(i % Len(s)) + 1]

\* each distinct n-gram has exactly one distinct successor in the cyclic sequence
Deterministic(s) ==
    \A i, j \in DOMAIN s : s[i] = s[j] => CyclicNext(s, i) = CyclicNext(s, j)

\* the distinct n-grams beginning with a space
WordStarts(s) == {ngram \in Range(s) : starts_with_space(ngram)}

(***************************************************************************)
(* Claims checked under Spec.                                              *)
(***************************************************************************)
\* C1: whenever passphrase(min_entropy) returns, the returned entropy is
\* >= min_entropy and the last selected n-gram ends with a space.
C1_ReturnMeetsEntropyAtWordEnd ==
    pc = "returned" =>
        /\ FGe(entropy, min_entropy)
        /\ selected # <<>>
        /\ ends_with_space(Last(selected))

\* a call that asked for one bit returned after a walk that gained entropy
C1_Witness ==
    /\ pc = "returned"
    /\ min_entropy = Bits(1000000)
    /\ Len(selected) >= 2
    /\ entropy.micro > chain.starting_entropy.micro
    /\ ~ends_with_space(selected[1])

\* C4: new() returns Err(NoNgrams) when, and only when, the input sequence
\* is empty.
C4_NoNgramsIffEmpty ==
    result # "none" => (result = "NoNgrams" <=> ngrams = <<>>)

C4_Witness == result = "NoNgrams" /\ ngrams = <<>>

\* C5: new() returns Err(ZeroEntropy) for every non-empty sequence in which
\* each distinct n-gram has exactly one distinct successor, whatever the
\* number of word-start n-grams.
C5_DeterministicIsZeroEntropy ==
    (result # "none" /\ ngrams # <<>> /\ Deterministic(ngrams)) => result = "ZeroEntropy"

\* C6: new() returns Err(ZeroStartOfWordEntropy) for every non-empty sequence
\* with non-zero transition entropy and fewer than two distinct word-start
\* n-grams (one, or none at all).
C6_FewStartsIsZeroStartEntropy ==
    (/\ result # "none"
     /\ ngrams # <<>>
     /\ ~Deterministic(ngrams)
     /\ Cardinality(WordStarts(ngrams)) < 2) => result = "ZeroStartOfWordEntropy"

\* C7: for every input sequence new() returns Ok or exactly one of NoNgrams,
\* ZeroEntropy, ZeroStartOfWordEntropy; no input makes it abort on a failed
\* unwrap of the starting or a transition sampler.
C7_NewNeverPanics ==
    result \in {"none", "Ok", "NoNgrams", "ZeroEntropy", "ZeroStartOfWordEntropy"}

\* C8: after new() returned Ok no step of passphrase() can fail: the sampled
\* starting n-gram and every n-gram a node's next() returns is a key of the
\* node map, every sampled index is within its value list, and the selected
\* list is non-empty when the output string is built.
C8_NoFailureAfterOk ==
    /\ pc # "panic"
    /\ pc = "returned" => selected # <<>>
    /\ result = "Ok" =>
        /\ \A i \in 0..(chain.starting_dist.size - 1), yn \in YNums :
              LET idx == AliasChoice(chain.starting_dist, i, yn)
              IN /\ idx \in 0..(Len(chain.starting_ngrams) - 1)
                 /\ chain.starting_ngrams[idx + 1] \in DOMAIN chain.nodes
        /\ \A ngram \in DOMAIN chain.nodes :
              \A i \in 0..(chain.nodes[ngram].dist.size - 1), yn \in YNums :
                 LET idx == AliasChoice(chain.nodes[ngram].dist, i, yn)
                 IN /\ idx \in 0..(Len(chain.nodes[ngram].transitions) - 1)
                    /\ chain.nodes[ngram].transitions[idx + 1] \in DOMAIN chain.nodes

\* a call returned after the iterator sampled three successors, the last of
\* them through an alias entry
C8_Witness ==
    /\ pc = "returned"
    /\ Len(selected) >= 3
    /\ \E ngram \in DOMAIN chain.nodes :
          \E i \in 0..(chain.nodes[ngram].dist.size - 1) :
             chain.nodes[ngram].dist.alias_table[i] # i

(***************************************************************************)
(* SpecAlias: AliasDistribution::new on any vector of up to MaxWeights     *)
(* weights (finite multiples of 0.5 up to MaxWeight halves, -0.0, negative *)
(* values, NaN and the infinities), then choice() with any draw.           *)
(***************************************************************************)
WeightValues ==
    {Fin(h) : h \in 0..MaxWeight} \cup {NegFin(h) : h \in 0..2} \cup {NaN, PosInf, NegInf}

InitAlias ==
    /\ weights \in SeqsUpTo(WeightValues, MaxWeights)
    /\ dist = AliasErr("none")
    /\ choice = 0 - 1
    /\ ngrams = <<>>
    /\ InitRest
    /\ InitOther
    /\ tape = <<>>
    /\ corpus = NoCorpus

\* AliasDistribution::new(&weights)
AliasNew ==
    /\ dist.status = "none"
    /\ dist' = AliasDistributionNew(weights)
    /\ UNCHANGED <<weights, choice, chainVars, callVars, tape, corpus, otherVars>>

\* dist.choice()
Choose ==
    /\ dist.status = "Ok"
    /\ \E d \in DrawSet(dist.size) : choice' = AliasChoice(dist, d.i, d.yn)
    /\ tape' = NextTape
    /\ UNCHANGED <<weights, dist, chainVars, callVars, corpus, otherVars>>

NextAlias == AliasNew \/ Choose

SpecAlias == InitAlias /\ [][NextAlias]_vars

\* w < 0.0, w != w, |w| = inf, w == 0.0 and w >= 0.0 on f64
IsNegative(w) == w.neg /\ (w.k = "inf" \/ (w.k = "fin" /\ w.h > 0))

IsNaN(w) == w.k = "nan"

IsInfinite(w) == w.k = "inf"

IsZero(w) == w.k = "fin" /\ w.h = 0

IsNonNegative(w) == ~IsNaN(w) /\ ~IsNegative(w)

\* C9: AliasDistribution::new returns Err(InvalidWeight) whenever any weight
\* is negative, NaN or infinite, whatever the sum of the weights is.
C9_InvalidWeightFirst ==
    dist.status # "none" =>
        ((\E i \in DOMAIN weights :
             IsNegative(weights[i]) \/ IsNaN(weights[i]) \/ IsInfinite(weights[i]))
         => dist.status = "InvalidWeight")

\* [1.0, -1.0]: a negative weight in a vector whose sum is zero
C9_Witness ==
    /\ dist.status = "InvalidWeight"
    /\ weights = <<Fin(2), NegFin(2)>>

\* C10: AliasDistribution::new returns Err(NullDistribution) when the weight
\* sequence is empty or all weights are zero, and Ok for every sequence of
\* finite non-negative weights with a positive sum.
C10_NullOrOk ==
    dist.status # "none" =>
        /\ (\A i \in DOMAIN weights : IsZero(weights[i])) => dist.status = "NullDistribution"
        /\ (/\ \A i \in DOMAIN weights : is_finite(weights[i]) /\ IsNonNegative(weights[i])
            /\ \E i \in DOMAIN weights : weights[i].h > 0) => dist.status = "Ok"

(***************************************************************************)
(* SpecFixture: the n-gram sequence of test_passphrasemarkovchain_new and  *)
(* passphrase(60.0), the draws coming from a seeded stream of period up to *)
(* TapeLen.                                                                *)
(***************************************************************************)
Fixture ==
    << <<" ", "t", "i">>, <<"t", "i", "c">>, <<"i", "c", " ">>, <<"c", " ", "t">>,
       <<" ", "t", "o">>, <<"t", "o", "c">>, <<"o", "c", " ">>, <<"c", " ", "t">> >>

FixtureMinEntropy == Bits(60 * 1000000)

TapeDraws == {[u |-> u, yn |-> yn] : u \in 0..1, yn \in {0, YDen}}

Tapes == SeqsUpTo(TapeDraws, TapeLen) \ {<<>>}

InitFixture ==
    /\ ngrams = Fixture
    /\ InitRest
    /\ InitOther
    /\ tape \in Tapes
    /\ weights = <<>>
    /\ dist = AliasErr("none")
    /\ choice = 0 - 1
    /\ corpus = NoCorpus

PassphraseFixture == Call(FixtureMinEntropy)

WalkFixture == Step(FixtureSteps)

NextFixture == New \/ PassphraseFixture \/ WalkFixture

SpecFixture == InitFixture /\ [][NextFixture]_vars

\* C3: for the fixture new() succeeds with starting_entropy exactly 1.0 and
\* exactly the word-start n-grams " ti" and " to", and passphrase(60.0)
\* returns entropy exactly 60.0 and a passphrase of exactly 239 characters.
C3_FixtureChainAndPassphrase ==
    /\ result # "none" =>
        /\ result = "Ok"
        /\ chain.starting_entropy = Bits(1000000)
        /\ Len(chain.starting_ngrams) = 2
        /\ Range(chain.starting_ngrams) = {<<" ", "t", "i">>, <<" ", "t", "o">>}
    /\ pc = "returned" =>
        /\ entropy = Bits(60 * 1000000)
        /\ Len(passphrase) = 239

\* passphrase(60.0) returned after a walk through both words
C3_Witness ==
    /\ pc = "returned"
    /\ min_entropy = FixtureMinEntropy
    /\ <<" ", "t", "i">> \in Range(selected)
    /\ <<" ", "t", "o">> \in Range(selected)

(***************************************************************************)
(* Corpus and Ngrams (src/lib/corpus.rs).  Offsets are byte offsets.       *)
(***************************************************************************)
\* char::len_utf8
ByteLen(c) == IF c = "é" THEN 2 ELSE 1

RECURSIVE ByteLength(_)
ByteLength(s) == IF s = <<>> THEN 0 ELSE ByteLen(s[1]) + ByteLength(Tail(s))

Min(a, b) == IF a < b THEN a ELSE b

\* s.chars().take(n)
Take(s, n) == SubSeq(s, 1, Min(n, Len(s)))

\* the number of characters before byte offset b (a character boundary)
CharsBefore(s, b) == CHOOSE n \in 0..Len(s) : ByteLength(SubSeq(s, 1, n)) = b

\* &s[from..to] by byte offsets
ByteSlice(s, from, to) == SubSeq(s, CharsBefore(s, from) + 1, CharsBefore(s, to))

\* the words joined without the empty first element
RECURSIVE JoinNoLeadingSpace(_)
JoinNoLeadingSpace(words) ==
    IF words = <<>> THEN <<>>
    ELSE IF Len(words) = 1 THEN words[1]
    ELSE words[1] \o <<" ">> \o JoinNoLeadingSpace(Tail(words))

\* Some("").into_iter().chain(words).collect::<Vec<&str>>().join(" ")
RECURSIVE JoinWords(_)
JoinWords(words) ==
    IF words = <<>> THEN <<>> ELSE <<" ">> \o words[1] \o JoinWords(Tail(words))

\* Corpus::new once clean_text has produced `cleaned`
CorpusNew(cleaned, ngram_length) ==
    [text |-> cleaned \o Take(cleaned, ngram_length),
     ngram_length |-> ngram_length,
     original_byte_length |-> ByteLength(cleaned)]

\* Ngrams::next at byte_index: [some, panicked, ngram, byte_index]
NgramsNext(c, byte_index) ==
    IF byte_index >= c.original_byte_length
    THEN [some |-> FALSE, panicked |-> FALSE, ngram |-> <<>>, byte_index |-> byte_index]
    ELSE LET ngram_start == SubSeq(c.text, CharsBefore(c.text, byte_index) + 1, Len(c.text))
             taken == Min(c.ngram_length + 1, Len(ngram_start))
             \* char_indices().take(ngram_length + 1).skip(1), by character position
             offset == [n \in 2..taken |-> ByteLength(SubSeq(ngram_start, 1, n - 1))]
         IN IF taken < 2
            THEN [some |-> FALSE, panicked |-> TRUE, ngram |-> <<>>, byte_index |-> byte_index]
            ELSE LET first_char_byte_length == offset[2]
                     ngram_byte_length ==
                        IF taken >= 3 THEN offset[taken] ELSE first_char_byte_length
                 IN [some |-> TRUE, panicked |-> FALSE,
                     ngram |-> ByteSlice(c.text, byte_index, byte_index + ngram_byte_length),
                     byte_index |-> byte_index + first_char_byte_length]

\* corpus.ngrams() collected
RECURSIVE CollectNgrams(_, _, _)
CollectNgrams(c, byte_index, acc) ==
    LET item == NgramsNext(c, byte_index)
    IN IF item.some THEN CollectNgrams(c, item.byte_index, Append(acc, item.ngram)) ELSE acc

CorpusNgrams(c) == CollectNgrams(c, 0, <<>>)

(***************************************************************************)
(* SpecLive: a chain built from the n-grams of a cleaned text of up to     *)
(* MaxWords words, then passphrase() with a finite min_entropy, its walk   *)
(* followed for up to MaxLiveSteps n-grams with every draw of the sampler. *)
(***************************************************************************)
Letters == {"a", "b"}

Words == SeqsUpTo(Letters, MaxWordLen) \ {<<>>}

NgramLengths == 2..MaxNgramLength

MaxLiveSteps == 8

LiveMinEntropies == {Bits(b * 1000000) : b \in 0..MaxMinEntropy}

InitLive ==
    /\ \E words \in SeqsUpTo(Words, MaxWords), ngram_length \in NgramLengths :
          /\ corpus = CorpusNew(JoinWords(words), ngram_length)
          /\ ngrams = CorpusNgrams(corpus)
    /\ InitRest
    /\ InitOther
    /\ tape = <<>>
    /\ weights = <<>>
    /\ dist = AliasErr("none")
    /\ choice = 0 - 1

PassphraseLive == \E m \in LiveMinEntropies : Call(m)

WalkLive == Step(MaxLiveSteps)

NextLive == New \/ PassphraseLive \/ WalkLive

\* passphrase() is sequential code: the loop goes on while it can
SpecLive == InitLive /\ [][NextLive]_vars /\ WF_vars(WalkLive)

\* what the loop condition of passphrase() reads of a walk: the n-gram the
\* iterator yields next and the entropy so far, counted up to m
WalkAt(ngram, e, m) == [ngram |-> ngram, entropy |-> IF FGe(e, m) THEN m ELSE e]

\* the n-grams the iterator can move on to from ngram, over every draw
Successors(c, ngram) ==
    LET node == c.nodes[ngram]
    IN {node.transitions[AliasChoice(node.dist, i, yn) + 1] :
            i \in 0..(node.dist.size - 1), yn \in YNums}

\* the loop breaks on the n-gram of walk w
Breaks(c, w, m) ==
    BreakCondition(FAdd(w.entropy, ngram_entropy(c, w.ngram)), m, w.ngram)

\* the walks one iteration after a walk of ws that did not break
AfterOne(c, ws, m) ==
    UNION {{WalkAt(next, FAdd(w.entropy, ngram_entropy(c, w.ngram)), m) :
                next \in Successors(c, w.ngram)} :
           w \in {v \in ws : ~Breaks(c, v, m)}}

\* the walks some number of iterations after a walk of ws
RECURSIVE WalksFrom(_, _, _)
WalksFrom(c, ws, m) ==
    LET more == ws \cup AfterOne(c, ws, m)
    IN IF more = ws THEN ws ELSE WalksFrom(c, more, m)

\* the loop can still break
CanReturn ==
    \E w \in WalksFrom(chain, {WalkAt(current, entropy, min_entropy)}, min_entropy) :
        Breaks(chain, w, min_entropy)

\* C2: for every chain new() accepts, built from the cyclic n-grams of a
\* cleaned text, and every finite min_entropy, a call to passphrase()
\* eventually returns under fair random choice: at every iteration of the
\* loop a break is still among the continuations of the walk (so that a
\* walk that takes every transition it meets again and again breaks), and
\* every walk returns or goes on past MaxLiveSteps n-grams.
C2_PassphraseReturns ==
    /\ [](pc = "walk" => CanReturn)
    /\ (pc = "walk") ~> (pc = "returned" \/ Len(selected) = MaxLiveSteps)

\* a call that asked for the most entropy returned after a walk that met
\* an n-gram twice
C2_Witness ==
    /\ pc = "returned"
    /\ min_entropy = Bits(MaxMinEntropy * 1000000)
    /\ corpus.original_byte_length > 0
    /\ \E k, l \in DOMAIN selected : k < l /\ selected[k] = selected[l]

(***************************************************************************)
(* The alias tables and the stored entropy, under SpecAlias.               *)
(***************************************************************************)
\* probability_table[k] plus the sum of 1 - probability_table[i] over the
\* i < n whose alias is k, summed without rounding
RECURSIVE AliasDonations(_, _, _)
AliasDonations(d, k, n) ==
    IF n = 0 THEN d.probability_table[k]
    ELSE LET rest == AliasDonations(d, k, n - 1)
         IN IF d.alias_table[n - 1] = k
            THEN SignedSum(rest, SignedSum(F64One, F64Neg(d.probability_table[n - 1])))
            ELSE rest

\* the tolerance of the comparison, 2^-ToleranceBits
ToleranceBits == 20

\* |a - b| < 2^-ToleranceBits
ApproxEq(a, b) ==
    LLess(SignedSum(a, F64Neg(b)).m, LPow2(FracBits - ToleranceBits))

\* C11: the tables encode the normalized weights: for each index k,
\* probability_table[k]/n plus the sum of (1 - probability_table[i])/n over
\* the i with alias_table[i] = k equals w_k/total (both sides times n, and
\* equal as the doubles of the tables allow: within 2^-ToleranceBits).
C11_TablesEncodeWeights ==
    dist.status = "Ok" =>
        \A k \in 0..(dist.size - 1) :
            ApproxEq(AliasDonations(dist, k, dist.size),
                     F64(FALSE, LDiv(dist.size * weights[k + 1].h, dist.total).quot))

\* [0.5, 2.0, 0.5]: both light indices take the heavy one as alias
C11_Witness ==
    /\ dist.status = "Ok"
    /\ weights = <<Fin(1), Fin(4), Fin(1)>>
    /\ dist.alias_table = (0 :> 1) @@ (1 :> 1) @@ (2 :> 1)

\* the entropy of the weights, a zero weight contributing nothing:
\* log2(total) - (sum of w * log2(w)) / total, in millionths
RECURSIVE WeightedLogs(_)
WeightedLogs(ws) ==
    IF ws = <<>> THEN 0
    ELSE (IF ws[1].h = 0 THEN 0 ELSE ws[1].h * Log2Micro(ws[1].h)) + WeightedLogs(Tail(ws))

ShannonMicro(ws) == Log2Micro(SumHalves(ws)) - (WeightedLogs(ws) \div SumHalves(ws))

\* equal within the rounding of one millionth per weight
NearBits(e, micro, n) ==
    e.k = "fin" /\ e.micro - micro <= n /\ micro - e.micro <= n

\* C12: the entropy stored by a sampler equals -sum (w_i/total) *
\* log2(w_i/total) of its input weights.
C12_StoredEntropyIsShannon ==
    dist.status = "Ok" => NearBits(dist.entropy, ShannonMicro(weights), Len(weights))

\* C13: for a sampler over n weights every alias_table entry is in [0, n) and
\* choice returns an index in [0, n) for every draw of i and y.
C13_AliasAndChoiceInRange ==
    dist.status = "Ok" =>
        /\ \A i \in 0..(dist.size - 1) : dist.alias_table[i] \in 0..(dist.size - 1)
        /\ \A i \in 0..(dist.size - 1), yn \in 0..YDen :
                AliasChoice(dist, i, yn) \in 0..(dist.size - 1)
        /\ choice # 0 - 1 => choice \in 0..(dist.size - 1)

\* choice() returned the alias of another index: index 1 of [0.5, 2.0, 0.5]
C13_Witness ==
    /\ dist.status = "Ok"
    /\ weights = <<Fin(1), Fin(4), Fin(1)>>
    /\ choice = 1

(***************************************************************************)
(* The transition counts of new(), under Spec.                             *)
(***************************************************************************)
\* the count recorded for (a, b): transition_counters[a][b], 0 when absent
Recorded(tc, a, b) ==
    IF a \in DOMAIN tc /\ b \in DOMAIN tc[a] THEN tc[a][b] ELSE 0

\* the positions of s at which a is followed, cyclically, by b
Positions(s, a, b) == {i \in DOMAIN s : s[i] = a /\ CyclicNext(s, i) = b}

RECURSIVE SumMap(_, _)
SumMap(map, keys) ==
    IF keys = {} THEN 0
    ELSE LET key == CHOOSE x \in keys : TRUE
         IN map[key] + SumMap(map, keys \ {key})

RECURSIVE SumCounters(_, _)
SumCounters(tc, keys) ==
    IF keys = {} THEN 0
    ELSE LET key == CHOOSE x \in keys : TRUE
         IN SumMap(tc[key], DOMAIN tc[key]) + SumCounters(tc, keys \ {key})

\* C14: for a non-empty input s of length n, the count recorded for (a, b)
\* is the number of positions i with s[i] = a and s[(i+1) mod n] = b; every
\* distinct n-gram has an outgoing transition, every target is a source, and
\* the counts sum to n.
C14_CountsAreCyclicPairs ==
    (result # "none" /\ ngrams # <<>>) =>
        LET tc == Counts(ngrams).transition_counters
        IN /\ \A a \in NgramSet, b \in NgramSet :
                Recorded(tc, a, b) = Cardinality(Positions(ngrams, a, b))
           /\ DOMAIN tc = Range(ngrams)
           /\ \A a \in DOMAIN tc : DOMAIN tc[a] # {} /\ DOMAIN tc[a] \subseteq DOMAIN tc
           /\ SumCounters(tc, DOMAIN tc) = Len(ngrams)
           /\ result = "Ok" =>
                /\ DOMAIN chain.nodes = Range(ngrams)
                /\ \A a \in DOMAIN chain.nodes :
                      /\ Range(chain.nodes[a].transitions) = DOMAIN tc[a]
                      /\ chain.nodes[a].dist.total = 2 * SumMap(tc[a], DOMAIN tc[a])

\* a chain whose last n-gram occurs once, its only transition being the one
\* to the first n-gram, and with a transition counted twice
C14_Witness ==
    /\ result = "Ok"
    /\ Len(ngrams) = MaxLen
    /\ \A i \in 1..(Len(ngrams) - 1) : ngrams[i] # Last(ngrams)
    /\ chain.nodes[Last(ngrams)].transitions = <<ngrams[1]>>
    /\ \E a \in NgramSet, b \in NgramSet :
          Recorded(Counts(ngrams).transition_counters, a, b) = 2

(***************************************************************************)
(* The output string of passphrase(), under Spec.                          *)
(***************************************************************************)
\* every n-gram has the length of the first and overlaps its predecessor by
\* all but one character
Overlapping(sel) ==
    /\ \A i \in DOMAIN sel : Len(sel[i]) = Len(sel[1])
    /\ \A i \in 1..(Len(sel) - 1) : Tail(sel[i]) = SubSeq(sel[i + 1], 1, Len(sel[1]) - 1)

AllWhitespace(s) == \A i \in DOMAIN s : IsWhitespace(s[i])

\* p is u without its leading and trailing whitespace
IsTrimOf(p, u) ==
    /\ p # <<>> => ~IsWhitespace(p[1]) /\ ~IsWhitespace(Last(p))
    /\ \E a \in 0..Len(u) :
          /\ a + Len(p) <= Len(u)
          /\ SubSeq(u, a + 1, a + Len(p)) = p
          /\ AllWhitespace(SubSeq(u, 1, a))
          /\ AllWhitespace(SubSeq(u, a + Len(p) + 1, Len(u)))

\* C15: for a walk of k n-grams of length L, each overlapping its predecessor
\* by L-1 characters, the untrimmed output has k-1+L characters, its window of
\* L characters at offset i is the i-th selected n-gram, and the returned
\* string is that text without leading and trailing whitespace.
C15_OutputWindowsAreNgrams ==
    (pc = "returned" /\ Overlapping(selected)) =>
        LET u == Untrimmed(selected)
            k == Len(selected)
            L == Len(selected[1])
        IN /\ Len(u) = k - 1 + L
           /\ \A i \in 1..k : SubSeq(u, i, i + L - 1) = selected[i]
           /\ IsTrimOf(passphrase, u)

\* a returned walk of three overlapping n-grams whose text lost its spaces
C15_Witness ==
    /\ pc = "returned"
    /\ Overlapping(selected)
    /\ Len(selected) >= 3
    /\ passphrase # <<>>
    /\ Len(passphrase) < Len(Untrimmed(selected))

(***************************************************************************)
(* SpecConc: two passphrase() calls on one chain, their steps interleaved. *)
(* passphrase takes &self: the chain is shared, and each call owns its     *)
(* iterator, its selected_ngrams and its entropy.  The second call's       *)
(* locals are the record `peer`.                                           *)
(***************************************************************************)
\* the draws of the operating system's generator for a sampler over `size`
AnyDraws(size) == {[i |-> i, yn |-> yn] : i \in 0..(size - 1), yn \in YNums}

\* passphrase(m) up to the loop, the starting n-gram sampled with draw d
Started(c, m, d) ==
    LET idx == AliasChoice(c.starting_dist, d.i, d.yn)
    IN IF \/ idx \notin 0..(Len(c.starting_ngrams) - 1)
          \/ c.starting_ngrams[idx + 1] \notin DOMAIN c.nodes
       THEN [NoCall EXCEPT !.pc = "panic"]
       ELSE [pc |-> "walk", min_entropy |-> m,
             current |-> c.nodes[c.starting_ngrams[idx + 1]].value,
             selected |-> <<>>, entropy |-> c.starting_entropy, passphrase |-> <<>>]

\* one loop iteration of a call with locals loc whose iterator yields ngram,
\* the successor sampled with draw d
Iterated(c, loc, ngram, d) ==
    IF ngram \notin DOMAIN c.nodes
    THEN [loc EXCEPT !.pc = "panic"]
    ELSE LET node == c.nodes[ngram]
             idx == AliasChoice(node.dist, d.i, d.yn)
             sel == Append(loc.selected, ngram)
             e == FAdd(loc.entropy, ngram_entropy(c, ngram))
             done == BreakCondition(e, loc.min_entropy, ngram)
         IN IF idx \notin 0..(Len(node.transitions) - 1)
            THEN [loc EXCEPT !.pc = "panic"]
            ELSE [pc |-> IF done THEN "returned" ELSE "walk",
                  min_entropy |-> loc.min_entropy,
                  current |-> node.transitions[idx + 1],
                  selected |-> sel,
                  entropy |-> e,
                  passphrase |-> IF done THEN PassphraseString(sel) ELSE loc.passphrase]

\* an iterator position kept in one place for all calls
IterCurrentShared(loc) == current

\* MarkovChainIterator.current of the call's own iterator
IterCurrent(loc) == loc.current

PeerCall(m) ==
    /\ result = "Ok"
    /\ peer.pc \in {"idle", "returned"}
    /\ \E d \in DrawSet(chain.starting_dist.size) : peer' = Started(chain, m, d)
    /\ tape' = NextTape
    /\ UNCHANGED <<chainVars, callVars, aliasVars, corpus, previous, source>>

PeerStep(bound) ==
    /\ peer.pc = "walk"
    /\ Len(peer.selected) < bound
    /\ LET ngram == IterCurrent(peer)
       IN IF ngram \notin DOMAIN chain.nodes
          THEN peer' = [peer EXCEPT !.pc = "panic"]
          ELSE \E d \in DrawSet(chain.nodes[ngram].dist.size) :
                  peer' = Iterated(chain, peer, ngram, d)
    /\ tape' = NextTape
    /\ UNCHANGED <<chainVars, callVars, aliasVars, corpus, previous, source>>

\* the cleaned texts and the min_entropy values of the two calls
ConcTexts ==
    {text \in {JoinWords(words) : words \in SeqsUpTo(Words, MaxWords)} :
        Len(text) <= MaxLen + 1}

ConcMinEntropies == {Bits(b * 1000000) : b \in 0..(MaxMinEntropy - 1)}

InitConc ==
    /\ \E text \in ConcTexts :
          /\ corpus = CorpusNew(text, 2)
          /\ ngrams = CorpusNgrams(corpus)
    /\ InitRest
    /\ InitOther
    /\ tape = <<>>
    /\ weights = <<>>
    /\ dist = AliasErr("none")
    /\ choice = 0 - 1

PassphraseConc == \E m \in ConcMinEntropies : Call(m)

PassphrasePeer == \E m \in ConcMinEntropies : PeerCall(m)

WalkPeer == PeerStep(MaxSteps)

NextConc == New \/ PassphraseConc \/ Walk \/ PassphrasePeer \/ WalkPeer

SpecConc == InitConc /\ [][NextConc]_vars

\* what a call with locals loc, run alone, can return within n more iterations
RECURSIVE SoloReturns(_, _, _)
SoloReturns(c, loc, n) ==
    IF loc.pc = "returned" THEN {<<loc.passphrase, loc.entropy>>}
    ELSE IF loc.pc # "walk" \/ n = 0 \/ loc.current \notin DOMAIN c.nodes THEN {}
    ELSE UNION {SoloReturns(c, next, n - 1) :
                  next \in {Iterated(c, loc, loc.current, d) :
                              d \in AnyDraws(c.nodes[loc.current].dist.size)}}

\* what passphrase(m), run alone on chain c, can return within MaxSteps n-grams
SoloCall(c, m) ==
    UNION {SoloReturns(c, Started(c, m, d), MaxSteps) :
             d \in AnyDraws(c.starting_dist.size)}

ChainKept == result = "Ok" => (chain' = chain /\ result' = result /\ ngrams' = ngrams)

ReturnsAreSolo ==
    /\ pc = "returned" => <<passphrase, entropy>> \in SoloCall(chain, min_entropy)
    /\ peer.pc = "returned" =>
          <<peer.passphrase, peer.entropy>> \in SoloCall(chain, peer.min_entropy)

\* C16: passphrase leaves the chain unchanged, and under any interleaving of
\* two calls on one chain each call returns a result that the same call
\* could return when run alone.
C16_CallsDoNotInterfere == [][ChainKept]_vars /\ []ReturnsAreSolo

\* both calls returned, with different passphrases, each after a walk of at
\* least two n-grams
C16_Witness ==
    /\ pc = "returned"
    /\ peer.pc = "returned"
    /\ passphrase # peer.passphrase
    /\ Len(selected) >= 2
    /\ Len(peer.selected) >= 2

(***************************************************************************)
(* SpecRuns: new() and passphrase() run twice on the same input with the   *)
(* same min_entropy and the same seeded stream of draws.  Each run builds  *)
(* its own HashMaps, so New picks the iteration orders afresh.             *)
(***************************************************************************)
InitRuns ==
    /\ ngrams \in SeqsUpTo(NgramSet, MaxLen)
    /\ InitRest
    /\ tape \in Tapes
    /\ peer = NoCall
    /\ previous = [NoRun EXCEPT !.seed = tape]
    /\ source = NoSource
    /\ weights = <<>>
    /\ dist = AliasErr("none")
    /\ choice = 0 - 1
    /\ corpus = NoCorpus

\* the one passphrase() call of a run; the second run repeats the argument
PassphraseRun ==
    /\ pc = "idle"
    /\ \E m \in LiveMinEntropies :
          /\ previous.done => m = previous.min_entropy
          /\ Call(m)

\* the first run is over: its outcome is kept and the program starts again
\* from the same input and the same seed
Rerun ==
    /\ pc = "returned"
    /\ ~previous.done
    /\ previous' = [done |-> TRUE, seed |-> previous.seed, min_entropy |-> min_entropy,
                    passphrase |-> passphrase, entropy |-> entropy]
    /\ tape' = previous.seed
    /\ result' = "none"
    /\ chain' = NoChain
    /\ pc' = "idle"
    /\ min_entropy' = Bits(0)
    /\ current' = <<>>
    /\ selected' = <<>>
    /\ entropy' = Bits(0)
    /\ passphrase' = <<>>
    /\ UNCHANGED <<ngrams, aliasVars, corpus, peer, source>>

NextRuns == New \/ PassphraseRun \/ Walk \/ Rerun

SpecRuns == InitRuns /\ [][NextRuns]_vars

\* C17: given the same input n-gram sequence, the same min_entropy and the
\* same sequence of random draws, two runs of chain construction followed by
\* passphrase return the same passphrase string and the same entropy.
C17_RunsAgree ==
    (pc = "returned" /\ previous.done) =>
        /\ passphrase = previous.passphrase
        /\ entropy = previous.entropy

(***************************************************************************)
(* SpecCorpus: Corpus::new on a text of up to MaxText characters, then the *)
(* Ngrams iterator run to exhaustion (src/lib/corpus.rs).                  *)
(***************************************************************************)
\* char::to_lowercase on the characters of the model
ToLower(c) == IF c = "B" THEN "b" ELSE c

to_lowercase(s) == [i \in DOMAIN s |-> ToLower(s[i])]

is_alphabetic(c) == c \in {"a", "b", "B", "é"}

\* |c: char| c.is_alphabetic() || c == '\''
is_word_char(c) == is_alphabetic(c) \/ c = "'"

\* str::split_whitespace
RECURSIVE SplitWhitespace(_, _, _)
SplitWhitespace(s, word, acc) ==
    IF s = <<>> THEN (IF word = <<>> THEN acc ELSE Append(acc, word))
    ELSE IF IsWhitespace(s[1])
    THEN SplitWhitespace(Tail(s), <<>>, IF word = <<>> THEN acc ELSE Append(acc, word))
    ELSE SplitWhitespace(Tail(s), Append(word, s[1]), acc)

split_whitespace(s) == SplitWhitespace(s, <<>>, <<>>)

\* word.trim_matches(|c| !is_word_char(c))
RECURSIVE TrimNonWordStart(_)
TrimNonWordStart(s) ==
    IF s # <<>> /\ ~is_word_char(s[1]) THEN TrimNonWordStart(Tail(s)) ELSE s

RECURSIVE TrimNonWordEnd(_)
TrimNonWordEnd(s) ==
    IF s # <<>> /\ ~is_word_char(Last(s)) THEN TrimNonWordEnd(Pop(s)) ELSE s

trim_matches(s) == TrimNonWordEnd(TrimNonWordStart(s))

\* Corpus::clean_word: [some, word]
clean_word(word, min_length) ==
    LET trimmed == trim_matches(word)
    IN IF (\A i \in DOMAIN trimmed : is_word_char(trimmed[i]))
          /\ ByteLength(trimmed) >= min_length
       THEN [some |-> TRUE, word |-> trimmed]
       ELSE [some |-> FALSE, word |-> <<>>]

\* filter_map(|word| Corpus::clean_word(word, min_word_length))
RECURSIVE FilterWords(_, _)
FilterWords(words, min_length) ==
    IF words = <<>> THEN <<>>
    ELSE LET cleaned == clean_word(words[1], min_length)
             rest == FilterWords(Tail(words), min_length)
         IN IF cleaned.some THEN <<cleaned.word>> \o rest ELSE rest

\* the words kept by clean_text, in input order
RetainedWords(text, min_word_length) ==
    FilterWords(split_whitespace(to_lowercase(text)), min_word_length)

\* Corpus::clean_text
clean_text(text, min_word_length) == JoinWords(RetainedWords(text, min_word_length))
RawChars == {" ", "a", "B", "'", "1", "é"}

InitCorpus ==
    /\ \E text \in SeqsUpTo(RawChars, MaxText), ngram_length \in NgramLengths,
          min_word_length \in 0..MaxMinWordLength :
          source = [NoSource EXCEPT !.text = text, !.ngram_length = ngram_length,
                                    !.min_word_length = min_word_length]
    /\ corpus = NoCorpus
    /\ ngrams = <<>>
    /\ InitRest
    /\ peer = NoCall
    /\ previous = NoRun
    /\ tape = <<>>
    /\ weights = <<>>
    /\ dist = AliasErr("none")
    /\ choice = 0 - 1

\* Corpus::new(reader, ngram_length, min_word_length)
ReadCorpus ==
    /\ ~source.built
    /\ corpus' = CorpusNew(clean_text(source.text, source.min_word_length),
                           source.ngram_length)
    /\ source' = [source EXCEPT !.built = TRUE]
    /\ UNCHANGED <<chainVars, callVars, tape, aliasVars, peer, previous>>

\* one call of Ngrams::next by the consumer of corpus.ngrams()
NextNgram ==
    /\ source.built
    /\ ~source.exhausted
    /\ LET item == NgramsNext(corpus, source.byte_index)
       IN IF item.some
          THEN /\ ngrams' = Append(ngrams, item.ngram)
               /\ source' = [source EXCEPT !.byte_index = item.byte_index]
          ELSE /\ ngrams' = ngrams
               /\ source' = [source EXCEPT !.exhausted = TRUE,
                                           !.panicked = item.panicked]
    /\ UNCHANGED <<result, chain, callVars, tape, aliasVars, corpus, peer, previous>>

NextCorpus == ReadCorpus \/ NextNgram

SpecCorpus == InitCorpus /\ [][NextCorpus]_vars

\* the cleaned text held by the Corpus: its text without the appended characters
Cleaned == ByteSlice(corpus.text, 0, corpus.original_byte_length)

\* the n characters of text from character i (counted from 1), wrapping
WrappedWindow(text, i, n) == [j \in 1..n |-> text[((i + j - 2) % Len(text)) + 1]]

\* C18: the source yields one n-gram per character of the cleaned text, in
\* text order, the i-th being the ngram_length characters from character i
\* with wraparound, so that each n-gram overlaps its cyclic successor.
C18_OneWrappedNgramPerChar ==
    source.exhausted =>
        /\ ~source.panicked
        /\ Len(ngrams) = Len(Cleaned)
        /\ \A i \in DOMAIN ngrams :
              /\ ngrams[i] = WrappedWindow(Cleaned, i, corpus.ngram_length)
              /\ Tail(ngrams[i])
                    = SubSeq(CyclicNext(ngrams, i), 1, corpus.ngram_length - 1)

\* C19: every n-gram yielded by Corpus::ngrams has exactly ngram_length
\* characters, also when the cleaned text has fewer than ngram_length.
C19_NgramsHaveNgramLength ==
    source.built => \A i \in DOMAIN ngrams : Len(ngrams[i]) = corpus.ngram_length

\* s split at every space, empty pieces kept
RECURSIVE SplitAtSpaces(_, _, _)
SplitAtSpaces(s, piece, acc) ==
    IF s = <<>> THEN Append(acc, piece)
    ELSE IF s[1] = " " THEN SplitAtSpaces(Tail(s), <<>>, Append(acc, piece))
    ELSE SplitAtSpaces(Tail(s), Append(piece, s[1]), acc)

\* C20: clean_text returns the empty string when no word is retained, and
\* otherwise the lowercased retained words in input order, each preceded by
\* exactly one space, with no characters other than letters, apostrophes and
\* those spaces.
C20_CleanTextIsSpacedWords ==
    source.built =>
        LET retained == RetainedWords(source.text, source.min_word_length)
        IN /\ retained = <<>> => Cleaned = <<>>
           /\ retained # <<>> =>
                 SplitAtSpaces(Cleaned, <<>>, <<>>) = <<<<>>>> \o retained
           /\ \A i \in DOMAIN Cleaned :
                 \/ Cleaned[i] = " "
                 \/ is_word_char(Cleaned[i]) /\ ToLower(Cleaned[i]) = Cleaned[i]
           /\ \A i \in DOMAIN retained :
                 \A j \in DOMAIN retained[i] : is_word_char(retained[i][j])

\* "B1 a" with min_word_length 1 becomes " b a"
C20_Witness ==
    /\ source.built
    /\ source.text = <<"B", "1", " ", "a">>
    /\ source.min_word_length = 1
    /\ Cleaned = <<" ", "b", " ", "a">>

(***************************************************************************)
(* Zero weights in the entropy loop, under SpecAlias.                      *)
(***************************************************************************)
HasZeroWeight(ws) == \E i \in DOMAIN ws : IsZero(ws[i])

\* C21: for a weight vector with positive sum in which some weights are 0,
\* the stored entropy is finite and equals the entropy of the non-zero
\* weights alone (a zero weight contributes 0, not NaN).
C21_ZeroWeightContributesNothing ==
    (dist.status = "Ok" /\ HasZeroWeight(weights)) =>
        /\ dist.entropy.k = "fin"
        /\ NearBits(dist.entropy, ShannonMicro(weights), Len(weights))

(***************************************************************************)
(* The entropy a call returns, under Spec.                                 *)
(***************************************************************************)
\* the number of times the walk visited an n-gram
Visits(sel, ngram) == Cardinality({i \in DOMAIN sel : sel[i] = ngram})

\* the sum over a set of n-grams of visits * node entropy, in millionths
RECURSIVE VisitEntropy(_, _, _)
VisitEntropy(c, sel, keys) ==
    IF keys = {} THEN 0
    ELSE LET key == CHOOSE x \in keys : TRUE
         IN Visits(sel, key) * c.nodes[key].entropy.micro
            + VisitEntropy(c, sel, keys \ {key})

\* C22: the entropy returned by passphrase equals starting_entropy plus the
\* node entropy of every selected n-gram, once per visit, the final n-gram
\* included; the successor sampled for the final n-gram is not selected.
C22_EntropyIsSumOverVisits ==
    pc = "returned" =>
        /\ Range(selected) \subseteq DOMAIN chain.nodes
        /\ \A ngram \in Range(selected) : chain.nodes[ngram].entropy.k = "fin"
        /\ entropy = Bits(chain.starting_entropy.micro
                          + VisitEntropy(chain, selected, Range(selected)))
        /\ passphrase = PassphraseString(selected)

\* a walk that visited an n-gram with entropy twice and stopped at an n-gram
\* that has entropy of its own
C22_Witness ==
    /\ pc = "returned"
    /\ \E i, j \in DOMAIN selected :
          /\ i < j
          /\ selected[i] = selected[j]
          /\ chain.nodes[selected[i]].entropy.micro > 0
    /\ chain.nodes[Last(selected)].entropy.micro > 0

(***************************************************************************)
(* The counting loop of src/lib.rs, and the starting counts, under Spec.   *)
(***************************************************************************)
\* the body of `for (a, b) in ngrams.zip(ngrams_copy)` for the i-th pair:
\* ngrams_copy is ngrams.cycle() with its first element consumed
LibCountStep(acc, s, i) ==
    LET a == s[i]
        b == s[(i % Len(s)) + 1]
        tc == acc.transition_counters
    IN [starting_ngram_counts |->
            IF starts_with_space(b)
            THEN Increment(acc.starting_ngram_counts, b)
            ELSE acc.starting_ngram_counts,
        transition_counters |->
            IF a \in DOMAIN tc
            THEN [tc EXCEPT ![a] = Increment(@, b)]
            ELSE tc @@ (a :> Increment(EmptyMap, b))]

RECURSIVE LibCountLoop(_, _, _)
LibCountLoop(s, i, acc) ==
    IF i > Len(s) THEN acc ELSE LibCountLoop(s, i + 1, LibCountStep(acc, s, i))

LibCounts(s) == LibCountLoop(s, 1, NoCounts)

\* the number of occurrences of an n-gram in the input sequence
Occurrences(s, ngram) == Cardinality({i \in DOMAIN s : s[i] = ngram})

\* C23: the starting weight of each word-start n-gram is its number of
\* occurrences in the input sequence, the first element included, and the
\* loop of src/markovchain.rs (counting the current element) and the loop of
\* src/lib.rs (counting the cyclic successor) build identical starting and
\* transition count tables.
C23_StartingCountsAgree ==
    (result # "none" /\ ngrams # <<>>) =>
        LET sc == Counts(ngrams).starting_ngram_counts
        IN /\ DOMAIN sc = WordStarts(ngrams)
           /\ \A ngram \in DOMAIN sc : sc[ngram] = Occurrences(ngrams, ngram)
           /\ LibCounts(ngrams).starting_ngram_counts = sc
           /\ LibCounts(ngrams).transition_counters = Counts(ngrams).transition_counters
           /\ result = "Ok" =>
                /\ Range(chain.starting_ngrams) = DOMAIN sc
                /\ chain.starting_dist.total = 2 * SumMap(sc, DOMAIN sc)

\* the first element is a word start that occurs nowhere else, and another
\* word start occurs twice
C23_Witness ==
    /\ result = "Ok"
    /\ starts_with_space(ngrams[1])
    /\ Occurrences(ngrams, ngrams[1]) = 1
    /\ \E ngram \in WordStarts(ngrams) :
          Counts(ngrams).starting_ngram_counts[ngram] = 2

(***************************************************************************)
(* SpecPairing: AliasDistribution::new one loop iteration at a time.  The  *)
(* construction in progress is kept in `dist` with its two stacks and the  *)
(* indices popped from underfull so far, by the loop head that ends the    *)
(* loop included; then choice() with any draw.                             *)
(***************************************************************************)
\* the locals of new() while the pairing loop runs
Building(st, size, total, e, popped) ==
    [status |-> "Pairing", size |-> size, total |-> total,
     probability_table |-> st.probability_table, alias_table |-> st.alias_table,
     entropy |-> e, iterations |-> st.iterations,
     underfull |-> st.underfull, overfull |-> st.overfull, popped |-> popped]

\* new() up to the pairing loop: the two error returns, the entropy, the
\* scaled probabilities and the two stacks
Scale ==
    /\ dist.status = "none"
    /\ dist' =
        IF \E i \in DOMAIN weights : is_sign_negative(weights[i]) \/ ~is_finite(weights[i])
        THEN AliasErr("InvalidWeight")
        ELSE LET total == SumHalves(weights)
             IN IF total = 0
                THEN AliasErr("NullDistribution")
                ELSE Building(PairingInit(weights, total), Len(weights), total,
                              EntropyLoop(weights, total, Bits(0)), <<>>)
    /\ UNCHANGED <<weights, choice, chainVars, callVars, tape, corpus, otherVars>>

\* one iteration of the pairing loop
Donate ==
    /\ dist.status = "Pairing"
    /\ dist.underfull # <<>>
    /\ dist.overfull # <<>>
    /\ dist' = Building(PairStep(dist), dist.size, dist.total, dist.entropy,
                        Append(dist.popped, Last(dist.underfull)))
    /\ UNCHANGED <<weights, choice, chainVars, callVars, tape, corpus, otherVars>>

\* a pop() returned None: the other pop() has taken the top of its stack,
\* the loop exits and new() returns Ok
Finish ==
    /\ dist.status = "Pairing"
    /\ dist.underfull = <<>> \/ dist.overfull = <<>>
    /\ dist' = [LoopExit(dist) EXCEPT
                   !.status = "Ok",
                   !.popped = IF dist.underfull = <<>> THEN @
                              ELSE Append(@, Last(dist.underfull))]
    /\ UNCHANGED <<weights, choice, chainVars, callVars, tape, corpus, otherVars>>

NextPairing == Scale \/ Donate \/ Finish \/ Choose

\* new() is sequential code: a step that can be taken is taken
SpecPairing == InitAlias /\ [][NextPairing]_vars /\ WF_vars(Scale \/ Donate \/ Finish)

\* C24: throughout alias-table construction over n valid weights, after the
\* initial scaling and after every donation, every probability_table entry
\* is >= 0 and <= n, and every index popped from underfull (by an iteration
\* or by the loop head that ends the loop) keeps a final entry in [0, 1].
C24_EntriesStayInRange ==
    dist.status \in {"Pairing", "Ok"} =>
        /\ \A i \in 0..(dist.size - 1) :
              /\ F64Ge(dist.probability_table[i], F64Zero)
              /\ F64Ge(F64Times(F64One, dist.size), dist.probability_table[i])
        /\ \A k \in DOMAIN dist.popped :
              /\ F64Ge(dist.probability_table[dist.popped[k]], F64Zero)
              /\ F64Ge(F64One, dist.probability_table[dist.popped[k]])
        /\ dist.status = "Ok" =>
              /\ dist.probability_table = AliasDistributionNew(weights).probability_table
              /\ dist.alias_table = AliasDistributionNew(weights).alias_table

\* a donation has left its donor below 1, and the donor was popped in turn
C24_Witness ==
    /\ dist.status = "Pairing"
    /\ Len(dist.popped) = 2
    /\ dist.alias_table[dist.popped[1]] = dist.popped[2]
    /\ F64Less(F64Zero, dist.probability_table[dist.popped[2]])
    /\ F64Less(dist.probability_table[dist.popped[2]], F64One)

\* the indices still on one of the two stacks
OnStacks(d) == Range(d.underfull) \cup Range(d.overfull)

\* the indices popped from underfull by an iteration of the loop
Paired(d) == SubSeq(d.popped, 1, d.iterations)

\* no index is on a stack twice, a popped underfull index is on neither stack
\* and was popped once, and exactly the indices popped by an iteration have
\* an alias other than themselves
PairedForGood(d) ==
    /\ Len(d.underfull) + Len(d.overfull) = Cardinality(OnStacks(d))
    /\ \A k \in DOMAIN d.popped : d.popped[k] \notin OnStacks(d)
    /\ \A k, l \in DOMAIN d.popped : d.popped[k] = d.popped[l] => k = l
    /\ \A i \in 0..(d.size - 1) :
          (d.alias_table[i] # i) <=> (i \in Range(Paired(d)))

\* while the loop runs every pop belongs to an iteration; the loop head that
\* ends the loop pops once more, from the one stack that is not empty
IterationsBounded ==
    dist.status \in {"Pairing", "Ok"} =>
        /\ dist.iterations <= dist.size - 1
        /\ PairedForGood(dist)
        /\ dist.status = "Pairing" =>
              /\ Len(dist.popped) = dist.iterations
              /\ Len(dist.underfull) + Len(dist.overfull) = dist.size - dist.iterations
        /\ dist.status = "Ok" =>
              /\ Len(dist.popped) \in {dist.iterations, dist.iterations + 1}
              /\ Len(dist.underfull) + Len(dist.overfull)
                    = dist.size - dist.iterations - 1

\* an iteration takes one index off the stacks and assigns one alias
OneIndexPerIteration ==
    (dist.status = "Pairing" /\ dist'.status = "Pairing") =>
        LET i == Last(dist.underfull)
        IN /\ dist'.iterations = dist.iterations + 1
           /\ Len(dist'.underfull) + Len(dist'.overfull)
                = Len(dist.underfull) + Len(dist.overfull) - 1
           /\ OnStacks(dist') = OnStacks(dist) \ {i}
           /\ dist'.alias_table[i] = Last(dist.overfull)
           /\ \A k \in 0..(dist.size - 1) :
                 k # i => dist'.alias_table[k] = dist.alias_table[k]

\* C25: the pairing loop terminates after at most n-1 iterations for n
\* weights: each iteration removes one index from underfull for good and
\* assigns its alias exactly once, and the combined size of the two stacks
\* decreases by one per iteration.
C25_PairingLoopTerminates ==
    /\ []IterationsBounded
    /\ [][OneIndexPerIteration]_vars
    /\ (dist.status = "Pairing") ~> (dist.status = "Ok")

\* the loop ran n-1 times for n = MaxWeights weights
C25_Witness ==
    /\ dist.status = "Ok"
    /\ dist.size = MaxWeights
    /\ dist.iterations = MaxWeights - 1

(***************************************************************************)
(* clean_word and the minimum word length, under SpecCorpus.               *)
(***************************************************************************)
\* the words of the lowercased input, as clean_text hands them to clean_word
InputWords == split_whitespace(to_lowercase(source.text))

\* C26: clean_word(word, min_length) returns the word without its leading
\* and trailing non-word characters when what remains consists only of word
\* characters and has at least min_length characters, and None otherwise; no
\* word of fewer than min_word_length characters enters the corpus.
C26_CleanWordCountsCharacters ==
    source.built =>
        /\ \A k \in DOMAIN InputWords :
              LET trimmed == trim_matches(InputWords[k])
                  kept == /\ \A i \in DOMAIN trimmed : is_word_char(trimmed[i])
                          /\ Len(trimmed) >= source.min_word_length
              IN clean_word(InputWords[k], source.min_word_length)
                    = IF kept THEN [some |-> TRUE, word |-> trimmed]
                      ELSE [some |-> FALSE, word |-> <<>>]
        /\ \A k \in DOMAIN RetainedWords(source.text, source.min_word_length) :
              Len(RetainedWords(source.text, source.min_word_length)[k])
                 >= source.min_word_length

(***************************************************************************)
(* The walk of a call, under Spec.                                         *)
(***************************************************************************)
\* C27: in every walk made by passphrase the first selected n-gram begins
\* with a space and occurs in the input sequence, and every consecutive pair
\* of selected n-grams is a pair of cyclically adjacent elements of the
\* input (a transition with a count of at least 1); so is the successor the
\* iterator holds for the last selected n-gram.
C27_WalkFollowsInput ==
    (pc \in {"walk", "returned"} /\ selected # <<>>) =>
        /\ selected[1][1] = " "
        /\ selected[1] \in Range(ngrams)
        /\ \A k \in 1..(Len(selected) - 1) :
              /\ Positions(ngrams, selected[k], selected[k + 1]) # {}
              /\ Recorded(Counts(ngrams).transition_counters,
                          selected[k], selected[k + 1]) >= 1
        /\ Positions(ngrams, Last(selected), current) # {}

\* a returned walk that took the transition from the last element of the
\* input to the first, after a step to an n-gram that is not a word start
C27_Witness ==
    /\ pc = "returned"
    /\ \E k \in 1..(Len(selected) - 1) :
          /\ k > 1
          /\ selected[k][1] # " "
          /\ Positions(ngrams, selected[k], selected[k + 1]) = {Len(ngrams)}

(***************************************************************************)
(* Zero weights and leftover indices in choice().                          *)
(***************************************************************************)
\* C28: for a successfully constructed sampler, choice never returns an
\* index whose input weight is 0, for every draw of i in [0, n) and every y
\* in [0, 1), y = 0 included.
C28_ChoiceAvoidsZeroWeight ==
    dist.status = "Ok" =>
        /\ \A i \in 0..(dist.size - 1), yn \in 0..YDen :
              ~IsZero(weights[AliasChoice(dist, i, yn) + 1])
        /\ choice # 0 - 1 => ~IsZero(weights[choice + 1])

(***************************************************************************)
(* SpecMain: gen_passphrases (src/lib/mod.rs) on any input text of up to   *)
(* MaxInput characters: get_ngrams, new(), then passphrase() calls.        *)
(***************************************************************************)
MaxInput == 5

InputChars == {" ", "a", "1"}

InitMain ==
    /\ \E text \in SeqsUpTo(InputChars, MaxInput), ngram_length \in NgramLengths,
          min_word_length \in 0..MaxMinWordLength :
          source = [NoSource EXCEPT !.text = text, !.ngram_length = ngram_length,
                                    !.min_word_length = min_word_length]
    /\ corpus = NoCorpus
    /\ ngrams = <<>>
    /\ InitRest
    /\ peer = NoCall
    /\ previous = NoRun
    /\ tape = <<>>
    /\ weights = <<>>
    /\ dist = AliasErr("none")
    /\ choice = 0 - 1

\* chars.clone().take(n) after i calls of chars.next(), for
\* chars = s.chars().cycle()
RECURSIVE CycleTake(_, _, _)
CycleTake(s, i, n) ==
    IF n = 0 \/ s = <<>> THEN <<>>
    ELSE <<s[(i % Len(s)) + 1]>> \o CycleTake(s, i + 1, n - 1)

\* for _ in 0..count { ngrams.push(chars.clone().take(ngram_length)); chars.next() }
RECURSIVE CycleNgrams(_, _, _)
CycleNgrams(s, ngram_length, i) ==
    IF i >= Len(s) THEN <<>>
    ELSE <<CycleTake(s, i, ngram_length)>> \o CycleNgrams(s, ngram_length, i + 1)

\* get_ngrams of src/lib/mod.rs: one n-gram of ngram_length characters per
\* character of the cleaned text
get_ngrams(text, ngram_length, min_word_length) ==
    CycleNgrams(clean_text(text, min_word_length), ngram_length, 0)

\* let ngrams = get_ngrams(&corpus, options.ngram_length, options.min_word_length)
GetNgrams ==
    /\ ~source.built
    /\ ngrams' = get_ngrams(source.text, source.ngram_length, source.min_word_length)
    /\ source' = [source EXCEPT !.built = TRUE, !.exhausted = TRUE]
    /\ UNCHANGED <<result, chain, callVars, tape, aliasVars, corpus, peer, previous>>

\* PassphraseMarkovChain::new(ngrams)
NewFromCorpus == source.built /\ New

PassphraseMain == \E m \in LiveMinEntropies : Call(m)

NextMain == GetNgrams \/ NewFromCorpus \/ PassphraseMain \/ Walk

SpecMain == InitMain /\ [][NextMain]_vars

\* C29: for a chain built from the cyclic n-grams of a cleaned text with
\* ngram_length >= 2, every passphrase returned is non-empty, has no leading
\* or trailing space, and comes from a walk of at least two n-grams.
C29_PassphraseFromTwoNgrams ==
    pc = "returned" =>
        /\ passphrase # <<>>
        /\ passphrase[1] # " "
        /\ Last(passphrase) # " "
        /\ Len(selected) >= 2

(***************************************************************************)
(* SpecOld: the AliasDistribution of src/alias_dist.rs, built from a map   *)
(* of usize weights (in any iteration order), then choice() with any draw. *)
(***************************************************************************)
\* pop i and j, alias_table[i] = j,
\* probability_table[j] = probability_table[i] + probability_table[j] - 1.0,
\* and j pushed back on one of the stacks
OldPairStep(st) ==
    LET i == Last(st.underfull)
        j == Last(st.overfull)
        pj == F64Sub(F64Add(st.probability_table[i], st.probability_table[j]), F64One)
        under == Pop(st.underfull)
        over == Pop(st.overfull)
    IN [probability_table |-> [st.probability_table EXCEPT ![j] = pj],
        alias_table |-> [st.alias_table EXCEPT ![i] = j],
        underfull |-> IF IsUnderfull(pj) THEN Append(under, j) ELSE under,
        overfull |-> IF IsUnderfull(pj) THEN over ELSE Append(over, j),
        iterations |-> st.iterations + 1]

\* the loop of src/alias_dist.rs: break when either stack is empty
RECURSIVE OldPairingLoop(_)
OldPairingLoop(st) ==
    IF st.overfull = <<>> \/ st.underfull = <<>> THEN st
    ELSE ValueOf(OldPairingLoop, OldPairStep(st))

\* the stacks when total is 0: every prob is 0/0 = NaN, and NaN < 1.0 is
\* false, so every index is pushed on overfull
AllOverfull(size) ==
    [probability_table |-> [i \in 0..(size - 1) |-> F64Zero],
     alias_table |-> [i \in 0..(size - 1) |-> i],
     underfull |-> <<>>,
     overfull |-> [k \in 1..size |-> k - 1],
     iterations |-> 0]

\* for i in underfull.iter().chain(overfull.iter()) { alias_table[*i] = 1 }
Placeholder(st) ==
    [i \in DOMAIN st.alias_table |->
        IF i \in Range(st.underfull) \cup Range(st.overfull) THEN 1 ELSE st.alias_table[i]]

\* AliasDistribution::new(&weights) of src/alias_dist.rs; `nan` says that the
\* probability_table entries are NaN
OldAliasDistributionNew(ws) ==
    LET size == Len(ws)
        total == SumHalves(ws)
        st == IF total = 0 THEN AllOverfull(size)
              ELSE ValueOf(OldPairingLoop, PairingInit(ws, total))
    IN [status |-> "Ok", size |-> size, total |-> total, nan |-> (total = 0),
        probability_table |-> st.probability_table,
        alias_table |-> Placeholder(st),
        entropy |-> EntropyLoop(ws, total, Bits(0)),
        iterations |-> st.iterations,
        underfull |-> st.underfull, overfull |-> st.overfull, panicked |-> FALSE]

\* choice(): the index into values, and whether &self.values[choice] panics
OldAliasChoice(d, i, yn) ==
    LET idx == IF ~d.nan /\ F64Ge(d.probability_table[i], GenF64(yn))
               THEN i ELSE d.alias_table[i]
    IN [index |-> idx, panicked |-> idx >= d.size]

\* the weights of a HashMap<T, usize>, as f64
Counters == {AsF64(count) : count \in 0..(MaxWeight \div 2)}

InitOld ==
    /\ weights \in SeqsUpTo(Counters, MaxWeights)
    /\ dist = AliasErr("none")
    /\ choice = 0 - 1
    /\ ngrams = <<>>
    /\ InitRest
    /\ InitOther
    /\ tape = <<>>
    /\ corpus = NoCorpus

OldNew ==
    /\ dist.status = "none"
    /\ dist' = OldAliasDistributionNew(weights)
    /\ UNCHANGED <<weights, choice, chainVars, callVars, tape, corpus, otherVars>>

\* dist.choice(): None when size is 0
OldChoose ==
    /\ dist.status = "Ok"
    /\ ~dist.panicked
    /\ IF dist.size = 0
       THEN UNCHANGED <<dist, choice>>
       ELSE \E d \in DrawSet(dist.size) :
               LET r == OldAliasChoice(dist, d.i, d.yn)
               IN /\ choice' = r.index
                  /\ dist' = [dist EXCEPT !.panicked = r.panicked]
    /\ tape' = NextTape
    /\ UNCHANGED <<weights, chainVars, callVars, corpus, otherVars>>

NextOld == OldNew \/ OldChoose

SpecOld == InitOld /\ [][NextOld]_vars

\* C30: when the pairing loop exits, underfull is empty and every index left
\* on overfull has scaled probability exactly 1, so choice never follows the
\* alias entry of a leftover index, and the placeholder alias 1 of
\* src/alias_dist.rs is never used as an index into values.
C30_LeftoverAliasUnused ==
    dist.status = "Ok" =>
        /\ dist.underfull = <<>>
        /\ \A k \in DOMAIN dist.overfull :
              /\ ~dist.nan
              /\ dist.probability_table[dist.overfull[k]] = F64One
              /\ \A yn \in 0..YDen :
                    OldAliasChoice(dist, dist.overfull[k], yn).index = dist.overfull[k]
        /\ ~dist.panicked

==============================================================================
